---- MODULE Spec2Model ----
(***************************************************************************)
(* xmhell: structured traversal of an XML document on top of the          *)
(* quick-xml pull tokenizer (src/expect.rs, src/error.rs).                 *)
(*                                                                         *)
(* A document is a sequence of lexemes (start tag, end tag, empty tag,     *)
(* raw text).  A reader is a cursor over such a sequence together with the *)
(* tokenizer's configuration and its stack of opened tag names.  The four  *)
(* matchers of trait Expect and ElementReader::read_inner are operators    *)
(* over readers; the actions below let an arbitrary caller drive them.     *)
(***************************************************************************)
EXTENDS Integers, Sequences, FiniteSets, TLC

(***************************************************************************)
(* Bounds of the model.                                                    *)
(***************************************************************************)
\* longest exhaustively enumerated document, in lexemes
MaxLen == 4
\* most children of the root element in the scan-loop documents
MaxKids == 3
\* longest stream the skip-and-retry loop is run on, in lexemes
MaxLoopLen == 3
\* most children of <foo> in the documents of the bar-counting program
MaxBars == 3
\* most children of the root element in the documents with whitespace
MaxTrimKids == 3

(***************************************************************************)
(* Tokens (quick_xml::events::Event) and lexemes.                          *)
(***************************************************************************)
Names == {"r", "x"}

Tag(k, n) == [kind |-> k, name |-> n, text |-> <<>>]
Txt(s) == [kind |-> "Text", name |-> "", text |-> s]
EofEvent == [kind |-> "Eof", name |-> "", text |-> <<>>]
NoEvent == [kind |-> "None", name |-> "", text |-> <<>>]

\* raw text contents: whitespace only, and an escaped '>'
WsText == <<" ">>
GtText == <<"&", "g", "t", ";">>
\* the same text escaped once more: &amp;gt;
AmpGtText == <<"&", "a", "m", "p", ";", "g", "t", ";">>

Lexemes ==
    {Tag("Start", n) : n \in Names} \cup {Tag("End", n) : n \in Names}
        \cup {Tag("Empty", "x")} \cup {Txt(WsText), Txt(GtText)}

IsWs(s) == \A i \in 1..Len(s) : s[i] = " "

RECURSIVE TrimStart(_)
TrimStart(s) ==
    IF s # <<>> /\ Head(s) = " " THEN TrimStart(Tail(s)) ELSE s

RECURSIVE TrimEnd(_)
TrimEnd(s) ==
    IF s # <<>> /\ s[Len(s)] = " " THEN TrimEnd(SubSeq(s, 1, Len(s) - 1)) ELSE s

(***************************************************************************)
(* BytesText::unescape: every "&name;" is replaced by the character it     *)
(* names; an unknown name or a '&' without ';' is an escape error.         *)
(***************************************************************************)
EntityNames == {<<"l", "t">>, <<"g", "t">>, <<"a", "m", "p">>,
                <<"a", "p", "o", "s">>, <<"q", "u", "o", "t">>}

EntityChar(n) ==
    CASE n = <<"l", "t">> -> "<"
      [] n = <<"g", "t">> -> ">"
      [] n = <<"a", "m", "p">> -> "&"
      [] n = <<"a", "p", "o", "s">> -> "'"
      [] OTHER -> "\""

\* index of the first ';' of s, 0 when there is none
SemiAt(s) ==
    IF \E i \in 1..Len(s) : s[i] = ";"
    THEN CHOOSE i \in 1..Len(s) : s[i] = ";" /\ \A j \in 1..(i - 1) : s[j] # ";"
    ELSE 0

RECURSIVE Unescape(_)
Unescape(s) ==
    IF s = <<>> THEN [ok |-> TRUE, out |-> <<>>]
    ELSE IF Head(s) # "&"
    THEN LET rest == Unescape(Tail(s))
         IN  [ok |-> rest.ok, out |-> IF rest.ok THEN <<Head(s)>> \o rest.out ELSE <<>>]
    ELSE LET semi == SemiAt(s)
         IN  IF semi = 0 \/ SubSeq(s, 2, semi - 1) \notin EntityNames
             THEN [ok |-> FALSE, out |-> <<>>]
             ELSE LET rest == Unescape(SubSeq(s, semi + 1, Len(s)))
                  IN  [ok |-> rest.ok,
                       out |-> IF rest.ok
                               THEN <<EntityChar(SubSeq(s, 2, semi - 1))>> \o rest.out
                               ELSE <<>>]

(***************************************************************************)
(* quick_xml::Reader<&[u8]>.                                               *)
(*   buf    the input, pos the number of lexemes consumed                  *)
(*   trim   trim_text: whitespace-only text is skipped, text is trimmed    *)
(*   check  check_end_names: an end tag must close the last opened tag     *)
(*   opened names of the start tags read and not yet closed                *)
(***************************************************************************)
NewReader(buf, trim, check) ==
    [buf |-> buf, pos |-> 0, trim |-> trim, check |-> check, opened |-> <<>>]

\* Reader::from_str: the defaults of quick-xml
FromStr(buf) == NewReader(buf, FALSE, TRUE)

\* Reader::trim_text
TrimTextOn(rd, flag) == [rd EXCEPT !.trim = flag]

\* the cursor after the whitespace that a trimming reader skips
SkipWhitespace(rd) ==
    IF rd.trim /\ rd.pos < Len(rd.buf)
       /\ rd.buf[rd.pos + 1].kind = "Text" /\ IsWs(rd.buf[rd.pos + 1].text)
    THEN rd.pos + 1
    ELSE rd.pos

\* faulty variant of ReadEvent: end tags are accepted whatever they close
ReadEvent_EndNamesUnchecked(rd) ==
    LET p == SkipWhitespace(rd) IN
    IF p = Len(rd.buf)
    THEN [ok |-> TRUE, ev |-> EofEvent, rd |-> [rd EXCEPT !.pos = p]]
    ELSE
      LET lx == rd.buf[p + 1]
          n == Len(rd.opened)
      IN
      CASE lx.kind = "Start" ->
             [ok |-> TRUE, ev |-> lx,
              rd |-> [rd EXCEPT !.pos = p + 1, !.opened = Append(rd.opened, lx.name)]]
        [] lx.kind = "Empty" ->
             [ok |-> TRUE, ev |-> lx, rd |-> [rd EXCEPT !.pos = p + 1]]
        [] lx.kind = "Text" ->
             [ok |-> TRUE,
              ev |-> IF rd.trim THEN Txt(TrimEnd(TrimStart(lx.text))) ELSE lx,
              rd |-> [rd EXCEPT !.pos = p + 1]]
        [] OTHER ->
             [ok |-> TRUE, ev |-> lx,
              rd |-> [rd EXCEPT !.pos = p + 1,
                                !.opened = IF n = 0 THEN <<>>
                                           ELSE SubSeq(rd.opened, 1, n - 1)]]

\* Reader::read_event: [ok, ev, rd]; ok = FALSE is a quick_xml::Error
ReadEvent(rd) ==
    LET p == SkipWhitespace(rd) IN
    IF p = Len(rd.buf)
    THEN [ok |-> TRUE, ev |-> EofEvent, rd |-> [rd EXCEPT !.pos = p]]
    ELSE
      LET lx == rd.buf[p + 1]
          n == Len(rd.opened)
      IN
      CASE lx.kind = "Start" ->
             [ok |-> TRUE, ev |-> lx,
              rd |-> [rd EXCEPT !.pos = p + 1, !.opened = Append(rd.opened, lx.name)]]
        [] lx.kind = "Empty" ->
             [ok |-> TRUE, ev |-> lx, rd |-> [rd EXCEPT !.pos = p + 1]]
        [] lx.kind = "Text" ->
             [ok |-> TRUE,
              ev |-> IF rd.trim THEN Txt(TrimEnd(TrimStart(lx.text))) ELSE lx,
              rd |-> [rd EXCEPT !.pos = p + 1]]
        [] OTHER ->
             IF n = 0
             THEN [ok |-> ~rd.check, ev |-> IF rd.check THEN NoEvent ELSE lx,
                   rd |-> [rd EXCEPT !.pos = p + 1]]
             ELSE LET mismatch == rd.check /\ rd.opened[n] # lx.name
                  IN  [ok |-> ~mismatch, ev |-> IF mismatch THEN NoEvent ELSE lx,
                       rd |-> [rd EXCEPT !.pos = p + 1,
                                         !.opened = SubSeq(rd.opened, 1, n - 1)]]

\* faulty variant of ReadToEnd: stops at the first end tag `name`, whatever
\* the depth
RECURSIVE ReadToEnd_FirstEndTag(_, _, _)
ReadToEnd_FirstEndTag(rd, name, depth) ==
    LET e == ReadEvent(rd) IN
    IF ~e.ok \/ e.ev.kind = "Eof"
    THEN [ok |-> FALSE, rd |-> e.rd, end |-> rd.pos]
    ELSE IF e.ev.kind = "End" /\ e.ev.name = name
    THEN [ok |-> TRUE, rd |-> e.rd, end |-> rd.pos]
    ELSE ReadToEnd_FirstEndTag(e.rd, name, depth)

\* faulty variant of ReadToEnd: leaves the cursor before the closing end tag
RECURSIVE ReadToEnd_EndTagUnread(_, _, _)
ReadToEnd_EndTagUnread(rd, name, depth) ==
    LET e == ReadEvent(rd) IN
    IF ~e.ok \/ e.ev.kind = "Eof"
    THEN [ok |-> FALSE, rd |-> e.rd, end |-> rd.pos]
    ELSE IF e.ev.kind = "Start" /\ e.ev.name = name
    THEN ReadToEnd_EndTagUnread(e.rd, name, depth + 1)
    ELSE IF e.ev.kind = "End" /\ e.ev.name = name
    THEN IF depth = 0
         THEN [ok |-> TRUE, rd |-> rd, end |-> rd.pos]
         ELSE ReadToEnd_EndTagUnread(e.rd, name, depth - 1)
    ELSE ReadToEnd_EndTagUnread(e.rd, name, depth)

\* faulty variant of ReadToEnd: end-of-stream closes the span
RECURSIVE ReadToEnd_EofCloses(_, _, _)
ReadToEnd_EofCloses(rd, name, depth) ==
    LET e == ReadEvent(rd) IN
    IF ~e.ok
    THEN [ok |-> FALSE, rd |-> e.rd, end |-> rd.pos]
    ELSE IF e.ev.kind = "Eof"
    THEN [ok |-> TRUE, rd |-> e.rd, end |-> e.rd.pos]
    ELSE IF e.ev.kind = "Start" /\ e.ev.name = name
    THEN ReadToEnd_EofCloses(e.rd, name, depth + 1)
    ELSE IF e.ev.kind = "End" /\ e.ev.name = name
    THEN IF depth = 0
         THEN [ok |-> TRUE, rd |-> e.rd, end |-> rd.pos]
         ELSE ReadToEnd_EofCloses(e.rd, name, depth - 1)
    ELSE ReadToEnd_EofCloses(e.rd, name, depth)

\* Reader::read_to_end: scans to the end tag `name` at depth zero;
\* [ok, rd, end] with end the cursor before the event that closed the span
RECURSIVE ReadToEnd(_, _, _)
ReadToEnd(rd, name, depth) ==
    LET e == ReadEvent(rd) IN
    IF ~e.ok \/ e.ev.kind = "Eof"
    THEN [ok |-> FALSE, rd |-> e.rd, end |-> rd.pos]
    ELSE IF e.ev.kind = "Start" /\ e.ev.name = name
    THEN ReadToEnd(e.rd, name, depth + 1)
    ELSE IF e.ev.kind = "End" /\ e.ev.name = name
    THEN IF depth = 0
         THEN [ok |-> TRUE, rd |-> e.rd, end |-> rd.pos]
         ELSE ReadToEnd(e.rd, name, depth - 1)
    ELSE ReadToEnd(e.rd, name, depth)

\* faulty variant of ReadText: the text inside the span is un-escaped while
\* the span is captured
ReadText_Unescapes(rd, name) ==
    LET t == ReadToEnd(rd, name, 0)
        raw == SubSeq(rd.buf, rd.pos + 1, t.end)
    IN  [ok |-> t.ok, rd |-> t.rd,
         span |-> IF t.ok
                  THEN [i \in 1..Len(raw) |->
                           IF raw[i].kind = "Text" /\ Unescape(raw[i].text).ok
                           THEN Txt(Unescape(raw[i].text).out)
                           ELSE raw[i]]
                  ELSE <<>>]

\* Reader::read_text: the input between the cursor and the matching end tag
ReadText(rd, name) ==
    LET t == ReadToEnd(rd, name, 0)
    IN  [ok |-> t.ok, rd |-> t.rd,
         span |-> IF t.ok THEN SubSeq(rd.buf, rd.pos + 1, t.end) ELSE <<>>]

(***************************************************************************)
(* xmhell::Error and the results of the operations.                        *)
(*   kind   "Ok", "Eof", "UnexpectedEvent", "Reader" or "Inner"            *)
(*   event  the token an UnexpectedEvent carries                           *)
(*   text   the value expect_text returns                                  *)
(*   cause  for Inner, the boxed error: the kinds it wraps, outermost      *)
(*          first ("User" is an error of the caller's own)                 *)
(***************************************************************************)
Res(k, ev, txt, cause) == [kind |-> k, event |-> ev, text |-> txt, cause |-> cause]
OkRes == Res("Ok", NoEvent, <<>>, <<>>)
OkText(txt) == Res("Ok", NoEvent, txt, <<>>)
ErrEof == Res("Eof", NoEvent, <<>>, <<>>)
ErrReader == Res("Reader", NoEvent, <<>>, <<>>)

\* Error::unexpected_event
UnexpectedEvent(ev) == Res("UnexpectedEvent", ev, <<>>, <<>>)

\* From<Box<dyn Error>> for Error, applied to the boxed error e
ErrInner(e) == Res("Inner", e.event, <<>>, <<e.kind>> \o e.cause)
UserError == Res("User", NoEvent, <<>>, <<>>)

(***************************************************************************)
(* impl Expect for Reader<&[u8]>: each operator yields [res, rd, span].    *)
(***************************************************************************)
Out(res, rd, span) == [res |-> res, rd |-> rd, span |-> span]

\* faulty variant of ExpectElement: an empty tag named name matches too
ExpectElement_EmptyMatches(rd, name) ==
    LET e == ReadEvent(rd) IN
    IF ~e.ok THEN Out(ErrReader, e.rd, <<>>)
    ELSE IF e.ev.kind = "Empty" /\ e.ev.name = name THEN Out(OkRes, e.rd, <<>>)
    ELSE IF e.ev.kind = "Start" /\ e.ev.name = name
    THEN LET t == ReadText(e.rd, name)
         IN  IF t.ok THEN Out(OkRes, t.rd, t.span) ELSE Out(ErrReader, t.rd, <<>>)
    ELSE IF e.ev.kind = "Eof" THEN Out(ErrEof, e.rd, <<>>)
    ELSE Out(UnexpectedEvent(e.ev), e.rd, <<>>)

\* faulty variant of ExpectElement: the catch-all arm precedes the Eof arm
ExpectElement_EofUnexpected(rd, name) ==
    LET e == ReadEvent(rd) IN
    IF ~e.ok THEN Out(ErrReader, e.rd, <<>>)
    ELSE IF e.ev.kind = "Start" /\ e.ev.name = name
    THEN LET t == ReadText(e.rd, name)
         IN  IF t.ok THEN Out(OkRes, t.rd, t.span) ELSE Out(ErrReader, t.rd, <<>>)
    ELSE Out(UnexpectedEvent(e.ev), e.rd, <<>>)

\* faulty variant of ExpectElement: a start tag of another name is skipped
\* together with its element
ExpectElement_SkipsMismatched(rd, name) ==
    LET e == ReadEvent(rd) IN
    IF ~e.ok THEN Out(ErrReader, e.rd, <<>>)
    ELSE IF e.ev.kind = "Start" /\ e.ev.name = name
    THEN LET t == ReadText(e.rd, name)
         IN  IF t.ok THEN Out(OkRes, t.rd, t.span) ELSE Out(ErrReader, t.rd, <<>>)
    ELSE IF e.ev.kind = "Eof" THEN Out(ErrEof, e.rd, <<>>)
    ELSE IF e.ev.kind = "Start"
    THEN Out(UnexpectedEvent(e.ev), ReadText(e.rd, e.ev.name).rd, <<>>)
    ELSE Out(UnexpectedEvent(e.ev), e.rd, <<>>)

ExpectElement(rd, name) ==
    LET e == ReadEvent(rd) IN
    IF ~e.ok THEN Out(ErrReader, e.rd, <<>>)
    ELSE IF e.ev.kind = "Start" /\ e.ev.name = name
    THEN LET t == ReadText(e.rd, name)
         IN  IF t.ok THEN Out(OkRes, t.rd, t.span) ELSE Out(ErrReader, t.rd, <<>>)
    ELSE IF e.ev.kind = "Eof" THEN Out(ErrEof, e.rd, <<>>)
    ELSE Out(UnexpectedEvent(e.ev), e.rd, <<>>)

\* faulty variant of ExpectEmpty: the name of the empty tag is not compared
ExpectEmpty_AnyName(rd, name) ==
    LET e == ReadEvent(rd) IN
    IF ~e.ok THEN Out(ErrReader, e.rd, <<>>)
    ELSE IF e.ev.kind = "Empty" THEN Out(OkRes, e.rd, <<>>)
    ELSE IF e.ev.kind = "Eof" THEN Out(ErrEof, e.rd, <<>>)
    ELSE Out(UnexpectedEvent(e.ev), e.rd, <<>>)

\* faulty variant of ExpectEmpty: a token that does not match is left unread
ExpectEmpty_Peeks(rd, name) ==
    LET e == ReadEvent(rd) IN
    IF ~e.ok THEN Out(ErrReader, e.rd, <<>>)
    ELSE IF e.ev.kind = "Empty" /\ e.ev.name = name THEN Out(OkRes, e.rd, <<>>)
    ELSE IF e.ev.kind = "Eof" THEN Out(ErrEof, e.rd, <<>>)
    ELSE Out(UnexpectedEvent(e.ev), rd, <<>>)

ExpectEmpty(rd, name) ==
    LET e == ReadEvent(rd) IN
    IF ~e.ok THEN Out(ErrReader, e.rd, <<>>)
    ELSE IF e.ev.kind = "Empty" /\ e.ev.name = name THEN Out(OkRes, e.rd, <<>>)
    ELSE IF e.ev.kind = "Eof" THEN Out(ErrEof, e.rd, <<>>)
    ELSE Out(UnexpectedEvent(e.ev), e.rd, <<>>)

\* faulty variant of ExpectEof: the Eof arm of the other matchers
ExpectEof_EofIsError(rd) ==
    LET e == ReadEvent(rd) IN
    IF ~e.ok THEN Out(ErrReader, e.rd, <<>>)
    ELSE IF e.ev.kind = "Eof" THEN Out(ErrEof, e.rd, <<>>)
    ELSE Out(UnexpectedEvent(e.ev), e.rd, <<>>)

ExpectEof(rd) ==
    LET e == ReadEvent(rd) IN
    IF ~e.ok THEN Out(ErrReader, e.rd, <<>>)
    ELSE IF e.ev.kind = "Eof" THEN Out(OkRes, e.rd, <<>>)
    ELSE Out(UnexpectedEvent(e.ev), e.rd, <<>>)

\* faulty variant of ExpectText: the raw text is returned
ExpectText_Raw(rd) ==
    LET e == ReadEvent(rd) IN
    IF ~e.ok THEN Out(ErrReader, e.rd, <<>>)
    ELSE IF e.ev.kind = "Text" THEN Out(OkText(e.ev.text), e.rd, <<>>)
    ELSE IF e.ev.kind = "Eof" THEN Out(ErrEof, e.rd, <<>>)
    ELSE Out(UnexpectedEvent(e.ev), e.rd, <<>>)

\* faulty variant of ExpectText: a token that is no text is left unread
ExpectText_Peeks(rd) ==
    LET e == ReadEvent(rd) IN
    IF ~e.ok THEN Out(ErrReader, e.rd, <<>>)
    ELSE IF e.ev.kind = "Text"
    THEN LET u == Unescape(e.ev.text)
         IN  IF u.ok THEN Out(OkText(u.out), e.rd, <<>>) ELSE Out(ErrReader, e.rd, <<>>)
    ELSE IF e.ev.kind = "Eof" THEN Out(ErrEof, e.rd, <<>>)
    ELSE Out(UnexpectedEvent(e.ev), rd, <<>>)

ExpectText(rd) ==
    LET e == ReadEvent(rd) IN
    IF ~e.ok THEN Out(ErrReader, e.rd, <<>>)
    ELSE IF e.ev.kind = "Text"
    THEN LET u == Unescape(e.ev.text)
         IN  IF u.ok THEN Out(OkText(u.out), e.rd, <<>>) ELSE Out(ErrReader, e.rd, <<>>)
    ELSE IF e.ev.kind = "Eof" THEN Out(ErrEof, e.rd, <<>>)
    ELSE Out(UnexpectedEvent(e.ev), e.rd, <<>>)

\* faulty variant of InnerReader: the reader keeps the default trim_text
InnerReader_NoTrim(span) == FromStr(span)

\* ElementReader::read_inner, up to the call of the routine: the fresh reader
InnerReader(span) == TrimTextOn(FromStr(span), TRUE)

\* faulty variant of ReadInnerFinish: the scoped stream is not checked
ReadInnerFinish_NoDrainCheck(rd, r) ==
    IF r.kind # "Ok" THEN Out(ErrInner(r), rd, <<>>) ELSE Out(r, rd, <<>>)

\* faulty variant of ReadInnerFinish: the scoped stream is checked before the
\* routine's result is looked at
ReadInnerFinish_CheckFirst(rd, r) ==
    LET e == ExpectEof(rd)
    IN  IF e.res.kind # "Ok" THEN Out(e.res, e.rd, <<>>)
        ELSE IF r.kind # "Ok" THEN Out(ErrInner(r), e.rd, <<>>)
        ELSE Out(r, e.rd, <<>>)

\* faulty variant of ReadInnerFinish: an xmhell::Error the routine returns is
\* handed on as it is, only other errors are wrapped
ReadInnerFinish_Unwrapped(rd, r) ==
    IF r.kind \in {"Eof", "UnexpectedEvent", "Reader", "Inner"} THEN Out(r, rd, <<>>)
    ELSE IF r.kind # "Ok" THEN Out(ErrInner(r), rd, <<>>)
    ELSE LET e == ExpectEof(rd)
         IN  IF e.res.kind = "Ok" THEN Out(r, e.rd, <<>>) ELSE Out(e.res, e.rd, <<>>)

\* ElementReader::read_inner, after the routine returned r over reader rd
ReadInnerFinish(rd, r) ==
    IF r.kind # "Ok" THEN Out(ErrInner(r), rd, <<>>)
    ELSE LET e == ExpectEof(rd)
         IN  IF e.res.kind = "Ok" THEN Out(r, e.rd, <<>>) ELSE Out(e.res, e.rd, <<>>)

(***************************************************************************)
(* Inputs.                                                                 *)
(***************************************************************************)
\* tokenizing bytes never yields two text lexemes in a row
NoAdjacentText(d) ==
    \A i \in 1..(Len(d) - 1) : ~(d[i].kind = "Text" /\ d[i + 1].kind = "Text")

Docs ==
    {d \in UNION {[1..n -> Lexemes] : n \in 0..MaxLen} : NoAdjacentText(d)}

\* the documents of the doc tests (src/lib.rs, src/expect.rs)
NestedDoc ==
    <<Tag("Start", "r"), Tag("Start", "r"), Txt(<<"x">>), Tag("End", "r"),
      Tag("End", "r")>>
LeftoverDoc ==
    <<Tag("Start", "r"), Tag("Empty", "x"), Tag("Empty", "y"), Tag("End", "r")>>
BarsDoc ==
    <<Txt(WsText), Tag("Start", "root"), Txt(WsText), Tag("Start", "foo"),
      Txt(WsText), Tag("Empty", "bar"), Txt(WsText), Tag("Empty", "bar"),
      Txt(WsText), Tag("End", "foo"), Txt(WsText), Tag("End", "root"),
      Txt(WsText)>>
BadEntityDoc ==
    <<Tag("Start", "r"), Txt(<<"&", "x">>), Tag("End", "r")>>
\* escaped and doubly escaped text, one and two scopes deep
GtDeepDoc ==
    <<Tag("Start", "r"), Tag("Start", "x"), Txt(GtText), Tag("End", "x"),
      Tag("End", "r")>>
AmpGtDoc ==
    <<Tag("Start", "r"), Txt(AmpGtText), Tag("End", "r")>>
AmpGtDeepDoc ==
    <<Tag("Start", "r"), Tag("Start", "x"), Txt(AmpGtText), Tag("End", "x"),
      Tag("End", "r")>>
SampleDocs ==
    {NestedDoc, LeftoverDoc, BarsDoc, BadEntityDoc, GtDeepDoc, AmpGtDoc, AmpGtDeepDoc}

\* the configurations a caller gives the root reader: [trim, check]
Configs == {<<FALSE, TRUE>>, <<TRUE, TRUE>>, <<FALSE, FALSE>>}

NamesOf(d) == {d[i].name : i \in {j \in 1..Len(d) : d[j].kind # "Text"}}

(***************************************************************************)
(* State.                                                                  *)
(*   frames  the live readers: frames[1] is the caller's root reader and   *)
(*           frames[i + 1] the reader read_inner built inside frames[i]    *)
(*   er      the ElementReader the innermost frame holds, not yet consumed *)
(*   last    the last operation that returned, with the reader it was      *)
(*           called on (pre), its result and the frame it ran in           *)
(*   pc      the statement the scan program is at ("caller" when the       *)
(*           caller is arbitrary), balls the texts it has collected        *)
(***************************************************************************)
VARIABLES frames, er, last, pc, balls

vars == <<frames, er, last, pc, balls>>

NoReader == NewReader(<<>>, FALSE, FALSE)
NoElementReader == [held |-> FALSE, span |-> <<>>]
Call(op, name, pre, out, routine, depth) ==
    [op |-> op, name |-> name, pre |-> pre, res |-> out.res, rd |-> out.rd,
     span |-> out.span, routine |-> routine, depth |-> depth]

NoCall == Call("none", "", NoReader, Out(OkRes, NoReader, <<>>), OkRes, 0)

Top == Len(frames)
CallNames == Names \cup NamesOf(frames[1].buf)

Init ==
    /\ \E d \in Docs \cup SampleDocs, c \in Configs :
           frames = <<NewReader(d, c[1], c[2])>>
    /\ er = NoElementReader
    /\ last = NoCall
    /\ pc = "caller"
    /\ balls = <<>>

\* a matcher returned `out` on the innermost reader
Returned(op, name, out) ==
    /\ frames' = [frames EXCEPT ![Top] = out.rd]
    /\ last' = Call(op, name, frames[Top], out, OkRes, Top)

CallExpectElement ==
    /\ ~er.held
    /\ \E name \in CallNames :
           LET out == ExpectElement(frames[Top], name) IN
           /\ Returned("expect_element", name, out)
           /\ er' = [held |-> out.res.kind = "Ok", span |-> out.span]
    /\ UNCHANGED <<pc, balls>>

CallExpectEmpty ==
    /\ ~er.held
    /\ \E name \in CallNames :
           Returned("expect_empty", name, ExpectEmpty(frames[Top], name))
    /\ UNCHANGED <<er, pc, balls>>

CallExpectEof ==
    /\ ~er.held
    /\ Returned("expect_eof", "", ExpectEof(frames[Top]))
    /\ UNCHANGED <<er, pc, balls>>

CallExpectText ==
    /\ ~er.held
    /\ Returned("expect_text", "", ExpectText(frames[Top]))
    /\ UNCHANGED <<er, pc, balls>>

\* the caller drops the ElementReader without reading it
DropElementReader ==
    /\ er.held
    /\ er' = NoElementReader
    /\ UNCHANGED <<frames, last, pc, balls>>

\* faulty variant of ReadInnerCall: read_inner borrows the ElementReader
\* instead of consuming it
ReadInnerCall_KeepsReader ==
    /\ er.held
    /\ frames' = Append(frames, InnerReader(er.span))
    /\ UNCHANGED <<er, last, pc, balls>>

\* read_inner consumes the ElementReader and calls the routine on a new reader
ReadInnerCall ==
    /\ er.held
    /\ frames' = Append(frames, InnerReader(er.span))
    /\ er' = NoElementReader
    /\ UNCHANGED <<last, pc, balls>>

\* what the routine running in the innermost frame may return: success with
\* the value of its last call, an error of its own, or (operator `?`) the
\* error its last call returned
RoutineResults ==
    {UserError}
        \cup (IF last.depth = Top /\ last.res.kind = "Ok" THEN {last.res} ELSE {OkRes})
        \cup (IF last.depth = Top /\ last.res.kind # "Ok" THEN {last.res} ELSE {})

\* the routine returns and read_inner finishes in the enclosing frame
ReadInnerReturn ==
    /\ Top > 1
    /\ \E r \in RoutineResults :
           /\ last' = Call("read_inner", "", frames[Top],
                           ReadInnerFinish(frames[Top], r), r, Top - 1)
           /\ frames' = SubSeq(frames, 1, Top - 1)
    /\ er' = NoElementReader
    /\ UNCHANGED <<pc, balls>>

Next ==
    \/ CallExpectElement
    \/ CallExpectEmpty
    \/ CallExpectEof
    \/ CallExpectText
    \/ DropElementReader
    \/ ReadInnerCall
    \/ ReadInnerReturn

Spec == Init /\ [][Next]_vars

(***************************************************************************)
(* The scan program of the doc test of trait Expect (src/expect.rs):       *)
(*                                                                         *)
(*   reader.expect_element("root")?.read_inner(|reader| loop {             *)
(*       match reader.expect_element("ball") {                             *)
(*           Ok(inner) => { inner.read_inner(|reader| {                    *)
(*               balls.push(reader.expect_text()?.into_owned()); Ok(())    *)
(*           })?; }                                                        *)
(*           Err(Error::Eof) => break Ok(()),                              *)
(*           Err(Error::UnexpectedEvent(_)) => continue,                   *)
(*           Err(err) => break Err(err.into()),                            *)
(*       }                                                                 *)
(*   })?;                                                                  *)
(*   reader.expect_eof()?;                                                 *)
(*                                                                         *)
(* run on a root element whose children are <ball>text</ball> elements and *)
(* empty tags of other names.                                              *)
(***************************************************************************)
\* the texts of the ball children: plain, escaped, and padded with a blank
BallTexts == {<<"a">>, GtText, <<" ", "b">>}

Ball(t) == <<Tag("Start", "ball"), Txt(t), Tag("End", "ball")>>

Kids == {Ball(t) : t \in BallTexts} \cup {<<Tag("Empty", "bat")>>, <<Tag("Empty", "cap")>>}

RECURSIVE Flatten(_)
Flatten(ks) == IF ks = <<>> THEN <<>> ELSE Head(ks) \o Flatten(Tail(ks))

ScanDocs ==
    {<<Tag("Start", "root")>> \o Flatten(ks) \o <<Tag("End", "root")>> :
        ks \in UNION {[1..n -> Kids] : n \in 0..MaxKids}}

ScanInit ==
    /\ \E d \in ScanDocs, c \in Configs :
           frames = <<NewReader(d, c[1], c[2])>>
    /\ er = NoElementReader
    /\ last = NoCall
    /\ pc = "expect_root"
    /\ balls = <<>>

\* reader.expect_element("root")?
ScanExpectRoot ==
    /\ pc = "expect_root"
    /\ LET out == ExpectElement(frames[Top], "root") IN
       /\ Returned("expect_element", "root", out)
       /\ er' = [held |-> out.res.kind = "Ok", span |-> out.span]
       /\ pc' = IF out.res.kind = "Ok" THEN "read_root" ELSE "failed"
    /\ UNCHANGED balls

\* .read_inner(|reader| loop { ... }): the loop starts on the new reader
ScanReadRoot ==
    /\ pc = "read_root"
    /\ frames' = Append(frames, InnerReader(er.span))
    /\ er' = NoElementReader
    /\ pc' = "expect_ball"
    /\ UNCHANGED <<last, balls>>

\* match reader.expect_element("ball")
ScanExpectBall ==
    /\ pc = "expect_ball"
    /\ LET out == ExpectElement(frames[Top], "ball") IN
       /\ Returned("expect_element", "ball", out)
       /\ er' = [held |-> out.res.kind = "Ok", span |-> out.span]
       /\ pc' = CASE out.res.kind = "Ok" -> "read_ball"
                  [] out.res.kind = "UnexpectedEvent" -> "expect_ball"
                  [] OTHER -> "leave_root"
    /\ UNCHANGED balls

\* inner.read_inner(|reader| ...): the routine starts on the new reader
ScanReadBall ==
    /\ pc = "read_ball"
    /\ frames' = Append(frames, InnerReader(er.span))
    /\ er' = NoElementReader
    /\ pc' = "expect_text"
    /\ UNCHANGED <<last, balls>>

\* balls.push(reader.expect_text()?.into_owned())
ScanExpectText ==
    /\ pc = "expect_text"
    /\ LET out == ExpectText(frames[Top]) IN
       /\ Returned("expect_text", "", out)
       /\ balls' = IF out.res.kind = "Ok" THEN Append(balls, out.res.text) ELSE balls
    /\ pc' = "leave_ball"
    /\ UNCHANGED er

\* the inner routine returns Ok(()) or the error of expect_text; read_inner
\* finishes and `?` ends the loop on an error
ScanLeaveBall ==
    /\ pc = "leave_ball"
    /\ LET r == IF last.res.kind = "Ok" THEN OkRes ELSE last.res
           out == ReadInnerFinish(frames[Top], r)
       IN  /\ last' = Call("read_inner", "", frames[Top], out, r, Top - 1)
           /\ pc' = IF out.res.kind = "Ok" THEN "expect_ball" ELSE "leave_root"
    /\ frames' = SubSeq(frames, 1, Top - 1)
    /\ UNCHANGED <<er, balls>>

\* the loop broke: with Ok(()) on Error::Eof, with the error otherwise;
\* read_inner finishes and `?` ends the program on an error
ScanLeaveRoot ==
    /\ pc = "leave_root"
    /\ LET r == IF last.res.kind = "Eof" THEN OkRes ELSE last.res
           out == ReadInnerFinish(frames[Top], r)
       IN  /\ last' = Call("read_inner", "", frames[Top], out, r, Top - 1)
           /\ pc' = IF out.res.kind = "Ok" THEN "expect_eof" ELSE "failed"
    /\ frames' = SubSeq(frames, 1, Top - 1)
    /\ UNCHANGED <<er, balls>>

\* reader.expect_eof()?
ScanExpectEof ==
    /\ pc = "expect_eof"
    /\ LET out == ExpectEof(frames[Top]) IN
       /\ Returned("expect_eof", "", out)
       /\ pc' = IF out.res.kind = "Ok" THEN "done" ELSE "failed"
    /\ UNCHANGED <<er, balls>>

ScanNext ==
    \/ ScanExpectRoot
    \/ ScanReadRoot
    \/ ScanExpectBall
    \/ ScanReadBall
    \/ ScanExpectText
    \/ ScanLeaveBall
    \/ ScanLeaveRoot
    \/ ScanExpectEof

SpecScan == ScanInit /\ [][ScanNext]_vars

(***************************************************************************)
(* The skip-and-retry scan loop (src/expect.rs, doc test of trait Expect), *)
(* on an arbitrary stream and with any of the expectations that report     *)
(* Error::Eof:                                                             *)
(*                                                                         *)
(*   loop { match reader.expect_...(..) {                                  *)
(*       Ok(_) => { .. }                                                   *)
(*       Err(Error::Eof) => break Ok(()),                                  *)
(*       Err(Error::UnexpectedEvent(_)) => continue,                       *)
(*       Err(err) => break Err(err.into()),                                *)
(*   } }                                                                   *)
(*                                                                         *)
(* A matched element is done with before the next iteration; the program   *)
(* runs on without pause, which is the fairness of SpecLoop.               *)
(***************************************************************************)
LoopDocs ==
    {d \in UNION {[1..n -> Lexemes] : n \in 0..MaxLoopLen} : NoAdjacentText(d)}

\* before the program has made its reader
LoopInit ==
    /\ frames = <<>>
    /\ er = NoElementReader
    /\ last = NoCall
    /\ pc = "from_str"
    /\ balls = <<>>

\* Reader::from_str(xml), configured by the caller, on any finite stream
LoopFromStr ==
    /\ pc = "from_str"
    /\ \E d \in LoopDocs, c \in Configs :
           frames' = <<NewReader(d, c[1], c[2])>>
    /\ pc' = "scan"
    /\ UNCHANGED <<er, last, balls>>

\* where the loop goes after a call that returned res
LoopBranch(res) ==
    CASE res.kind \in {"Ok", "UnexpectedEvent"} -> "scan"
      [] res.kind = "Eof" -> "stopped"
      [] OTHER -> "aborted"

LoopExpectElement ==
    /\ pc = "scan"
    /\ \E name \in CallNames :
           \E out \in {ExpectElement(frames[Top], name)} :
               /\ Returned("expect_element", name, out)
               /\ pc' = LoopBranch(out.res)
    /\ UNCHANGED <<er, balls>>

LoopExpectEmpty ==
    /\ pc = "scan"
    /\ \E name \in CallNames :
           \E out \in {ExpectEmpty(frames[Top], name)} :
               /\ Returned("expect_empty", name, out)
               /\ pc' = LoopBranch(out.res)
    /\ UNCHANGED <<er, balls>>

LoopExpectText ==
    /\ pc = "scan"
    /\ \E out \in {ExpectText(frames[Top])} :
           /\ Returned("expect_text", "", out)
           /\ pc' = LoopBranch(out.res)
    /\ UNCHANGED <<er, balls>>

LoopNext ==
    \/ LoopFromStr
    \/ LoopExpectText
    \/ LoopExpectEmpty
    \/ LoopExpectElement

SpecLoop == LoopInit /\ [][LoopNext]_vars /\ WF_vars(LoopNext)

(***************************************************************************)
(* The bar-counting program of the crate documentation (src/lib.rs), on    *)
(* documents <foo> kids </foo> whose kids are empty tags:                  *)
(*                                                                         *)
(*   reader.expect_element("foo")?.read_inner(|reader| {                   *)
(*       while let Ok(()) = reader.expect_empty("bar") { bars += 1; }      *)
(*       Ok(())                                                            *)
(*   })?;                                                                  *)
(***************************************************************************)
BarTags == {Tag("Empty", "bar"), Tag("Empty", "baz"), Tag("Empty", "qux")}

BarsDocs ==
    {<<Tag("Start", "foo")>> \o kids \o <<Tag("End", "foo")>> :
        kids \in UNION {[1..n -> BarTags] : n \in 0..MaxBars}}

BarsInit ==
    /\ \E d \in BarsDocs, c \in Configs :
           frames = <<NewReader(d, c[1], c[2])>>
    /\ er = NoElementReader
    /\ last = NoCall
    /\ pc = "expect_foo"
    /\ balls = <<>>

BarsExpectFoo ==
    /\ pc = "expect_foo"
    /\ LET out == ExpectElement(frames[Top], "foo") IN
       /\ Returned("expect_element", "foo", out)
       /\ er' = [held |-> out.res.kind = "Ok", span |-> out.span]
       /\ pc' = IF out.res.kind = "Ok" THEN "read_foo" ELSE "failed"
    /\ UNCHANGED balls

BarsReadFoo ==
    /\ pc = "read_foo"
    /\ frames' = Append(frames, InnerReader(er.span))
    /\ er' = NoElementReader
    /\ pc' = "while_bar"
    /\ UNCHANGED <<last, balls>>

\* one test of the while condition; balls records the bars counted
BarsExpectBar ==
    /\ pc = "while_bar"
    /\ LET out == ExpectEmpty(frames[Top], "bar") IN
       /\ Returned("expect_empty", "bar", out)
       /\ balls' = IF out.res.kind = "Ok" THEN Append(balls, <<"b", "a", "r">>) ELSE balls
       /\ pc' = IF out.res.kind = "Ok" THEN "while_bar" ELSE "leave_foo"
    /\ UNCHANGED er

\* the routine returns Ok(()) and read_inner finishes
BarsLeaveFoo ==
    /\ pc = "leave_foo"
    /\ LET out == ReadInnerFinish(frames[Top], OkRes) IN
       /\ last' = Call("read_inner", "", frames[Top], out, OkRes, Top - 1)
       /\ pc' = IF out.res.kind = "Ok" THEN "done" ELSE "failed"
    /\ frames' = SubSeq(frames, 1, Top - 1)
    /\ UNCHANGED <<er, balls>>

BarsNext ==
    \/ BarsExpectFoo
    \/ BarsReadFoo
    \/ BarsExpectBar
    \/ BarsLeaveFoo

SpecBars == BarsInit /\ [][BarsNext]_vars

(***************************************************************************)
(* A caller that also reconfigures its readers with Reader::trim_text,     *)
(* on documents <x> kids </x> with whitespace between the inner elements.  *)
(* The routine of read_inner is handed `&mut Reader` and may reconfigure   *)
(* it like any other caller.                                               *)
(***************************************************************************)
TrimKids == {Tag("Empty", "x"), Tag("Start", "r"), Tag("End", "r"), Txt(WsText)}

TrimDocs ==
    {<<Tag("Start", "x")>> \o kids \o <<Tag("End", "x")>> :
        kids \in {k \in UNION {[1..n -> TrimKids] : n \in 0..MaxTrimKids} :
                      NoAdjacentText(k)}}

TrimInit ==
    /\ \E d \in TrimDocs, t \in BOOLEAN :
           frames = <<TrimTextOn(FromStr(d), t)>>
    /\ er = NoElementReader
    /\ last = NoCall
    /\ pc = "caller"
    /\ balls = <<>>

\* reader.trim_text(flag) on the innermost reader
CallTrimText ==
    /\ ~er.held
    /\ \E flag \in BOOLEAN :
           LET rd == TrimTextOn(frames[Top], flag) IN
           /\ frames' = [frames EXCEPT ![Top] = rd]
           /\ last' = Call("trim_text", "", frames[Top], Out(OkRes, rd, <<>>), OkRes, Top)
    /\ UNCHANGED <<er, pc, balls>>

TrimNext ==
    \/ CallTrimText
    \/ CallExpectElement
    \/ CallExpectEmpty
    \/ CallExpectEof
    \/ CallExpectText
    \/ DropElementReader
    \/ ReadInnerCall
    \/ ReadInnerReturn

SpecTrim == TrimInit /\ [][TrimNext]_vars

(***************************************************************************)
(* Vocabulary of the properties, stated on the raw input of a reader.      *)
(***************************************************************************)
Insignificant(rd, i) ==
    rd.trim /\ rd.buf[i].kind = "Text" /\ IsWs(rd.buf[i].text)

\* index of the lexeme the next token of rd comes from, 0 at end-of-stream
NextIdx(rd) ==
    LET S == {i \in (rd.pos + 1)..Len(rd.buf) : ~Insignificant(rd, i)}
    IN  IF S = {} THEN 0 ELSE CHOOSE i \in S : \A j \in S : i <= j

AtEndOfStream(rd) == NextIdx(rd) = 0

\* the lexeme behind the next token of rd
NextLexeme(rd) == rd.buf[NextIdx(rd)]

\* same-name nesting depth of position j inside the element opened at i
Depth(buf, i, j) ==
    Cardinality({k \in (i + 1)..(j - 1) : buf[k] = Tag("Start", buf[i].name)})
        - Cardinality({k \in (i + 1)..(j - 1) : buf[k] = Tag("End", buf[i].name)})

\* index of the end tag that closes the start tag at i, 0 when there is none
MatchEnd(buf, i) ==
    LET S == {j \in (i + 1)..Len(buf) :
                 buf[j] = Tag("End", buf[i].name) /\ Depth(buf, i, j) = 0}
    IN  IF S = {} THEN 0 ELSE CHOOSE j \in S : \A k \in S : j <= k

\* index of the first end tag named like the start tag at i, 0 when none
FirstEnd(buf, i) ==
    LET S == {j \in (i + 1)..Len(buf) : buf[j] = Tag("End", buf[i].name)}
    IN  IF S = {} THEN 0 ELSE CHOOSE j \in S : \A k \in S : j <= k

\* the tokens a whitespace-trimming stream yields for the lexemes s
Toks(s) ==
    LET sig == SelectSeq(s, LAMBDA l : ~(l.kind = "Text" /\ IsWs(l.text)))
    IN  [k \in 1..Len(sig) |->
            IF sig[k].kind = "Text" THEN Txt(TrimEnd(TrimStart(sig[k].text)))
            ELSE sig[k]]

\* the tokens strictly between the start tag at i and its matching end tag
Between(buf, i) == Toks(SubSeq(buf, i + 1, MatchEnd(buf, i) - 1))

\* the reader stands right after the end tag of an element whose inner
\* tokens are those of the sub-stream input sub
Enclosing(parent, sub) ==
    /\ parent.pos >= 2
    /\ parent.buf[parent.pos].kind = "End"
    /\ \E i \in 1..(parent.pos - 1) :
           /\ parent.buf[i] = Tag("Start", parent.buf[parent.pos].name)
           /\ MatchEnd(parent.buf, i) = parent.pos
           /\ Toks(sub) = Between(parent.buf, i)

\* the tokenizer reports no error for the next token of rd
Tokenizes(rd) == ReadEvent(rd).ok
NextToken(rd) == ReadEvent(rd).ev

(***************************************************************************)
(* Properties.                                                             *)
(***************************************************************************)

\* C1: expect_element(name) succeeds only on a start tag named name, fails
\* with Error::Eof at end-of-stream, and fails with Error::UnexpectedEvent
\* carrying the offending token on every other token.
C1_ExpectElementClassifies ==
    last.op = "expect_element" =>
        LET rd == last.pre IN
        /\ last.res.kind = "Ok" =>
               ~AtEndOfStream(rd) /\ NextLexeme(rd) = Tag("Start", last.name)
        /\ AtEndOfStream(rd) => last.res = ErrEof
        /\ (~AtEndOfStream(rd) /\ Tokenizes(rd)
              /\ NextLexeme(rd) # Tag("Start", last.name)) =>
               /\ last.res = UnexpectedEvent(NextToken(rd))
               /\ last.res.event.kind = NextLexeme(rd).kind
               /\ last.res.event.name = NextLexeme(rd).name

\* an empty tag named like the expected element was refused
C1_Witness ==
    /\ last.op = "expect_element"
    /\ last.res = UnexpectedEvent(Tag("Empty", last.name))

\* C2: the span of a matched element is what lies strictly between the
\* start tag and the end tag at which the same-name depth returns to zero,
\* not the first end tag of that name.
C2_SpanEndsAtDepthZero ==
    (last.op = "expect_element" /\ last.res.kind = "Ok") =>
        LET rd == last.pre
            i == NextIdx(rd)
        IN  /\ MatchEnd(rd.buf, i) # 0
            /\ Toks(last.span) = Between(rd.buf, i)
            /\ ~rd.trim => last.span = SubSeq(rd.buf, i + 1, MatchEnd(rd.buf, i) - 1)

\* <r><r>x</r></r>: the inner element was read inside the outer scope and
\* both levels drained to end-of-stream
C2_Witness ==
    /\ frames[1].buf = NestedDoc
    /\ last.op = "read_inner" /\ last.depth = 1
    /\ last.res = OkText(<<"x">>)
    /\ last.pre.buf = SubSeq(NestedDoc, 2, 4)

\* C3: read_inner fails when the routine returns successfully with a token
\* of the scoped stream unread, and returns the routine's result only when
\* the scoped stream is at end-of-stream.
C3_LeftoverFails ==
    (last.op = "read_inner" /\ last.routine.kind = "Ok") =>
        /\ ~AtEndOfStream(last.pre) => last.res.kind \notin {"Ok", "Inner"}
        /\ last.res.kind = "Ok" => AtEndOfStream(last.pre) /\ last.res = last.routine
        /\ AtEndOfStream(last.pre) => last.res = last.routine

\* <r><x/><y/></r>: the routine matched <x/> only and read_inner failed on <y/>
C3_Witness ==
    /\ frames[1].buf = LeftoverDoc
    /\ last.op = "read_inner" /\ last.routine.kind = "Ok"
    /\ last.pre.pos = 1
    /\ last.res = UnexpectedEvent(Tag("Empty", "y"))

\* C4: after expect_element succeeds the parent's cursor is right after the
\* matching end tag and stays there whatever is done with the ElementReader;
\* the sub-stream starts at its own first token.
C4_ParentCursorAfterEnd ==
    /\ (last.op = "expect_element" /\ last.res.kind = "Ok") =>
           /\ frames[last.depth].pos = MatchEnd(last.pre.buf, NextIdx(last.pre))
           /\ Top = last.depth + 1 => frames[Top].pos = 0
    /\ \A k \in 1..(Top - 1) : Enclosing(frames[k], frames[k + 1].buf)
    /\ last.op = "read_inner" => Enclosing(frames[last.depth], last.pre.buf)

\* a routine that read nothing of a non-empty scope returned an error, and
\* the parent still stands after the end tag, with a token following it
C4_Witness ==
    /\ last.op = "read_inner" /\ last.routine.kind = "User"
    /\ last.pre.pos = 0 /\ ~AtEndOfStream(last.pre)
    /\ ~AtEndOfStream(frames[last.depth])
    /\ Enclosing(frames[last.depth], last.pre.buf)

\* C6: expect_eof succeeds only at end-of-stream, fails with
\* Error::UnexpectedEvent carrying the token otherwise, and never fails with
\* Error::Eof.
C6_ExpectEofClassifies ==
    last.op = "expect_eof" =>
        LET rd == last.pre IN
        /\ last.res.kind = "Ok" <=> AtEndOfStream(rd)
        /\ (~AtEndOfStream(rd) /\ Tokenizes(rd)) =>
               /\ last.res = UnexpectedEvent(NextToken(rd))
               /\ last.res.event.kind = NextLexeme(rd).kind
               /\ last.res.event.name = NextLexeme(rd).name
        /\ last.res.kind # "Eof"

\* expect_eof refused a text token
C6_Witness ==
    /\ last.op = "expect_eof"
    /\ last.res.kind = "UnexpectedEvent" /\ last.res.event.kind = "Text"

\* C7: expect_empty(name) succeeds only on an empty tag named name and then
\* consumes that one token; it fails with Error::Eof at end-of-stream and with
\* Error::UnexpectedEvent on every other token; expect_element(name) on the
\* empty tag <name/> fails with UnexpectedEvent, not Eof.
C7_ExpectEmptyClassifies ==
    /\ last.op = "expect_empty" =>
           LET rd == last.pre IN
           /\ last.res.kind = "Ok" <=>
                  ~AtEndOfStream(rd) /\ NextLexeme(rd) = Tag("Empty", last.name)
           /\ last.res.kind = "Ok" => frames[last.depth].pos = NextIdx(rd)
           /\ AtEndOfStream(rd) => last.res = ErrEof
           /\ (~AtEndOfStream(rd) /\ Tokenizes(rd)
                 /\ NextLexeme(rd) # Tag("Empty", last.name)) =>
                  last.res = UnexpectedEvent(NextToken(rd))
    /\ (last.op = "expect_element" /\ ~AtEndOfStream(last.pre)
          /\ NextLexeme(last.pre) = Tag("Empty", last.name)) =>
           last.res.kind = "UnexpectedEvent"

\* expect_empty refused a start tag of the expected name
C7_Witness ==
    /\ last.op = "expect_empty"
    /\ last.res = UnexpectedEvent(Tag("Start", last.name))

\* C8: expect_text succeeds only on a text token and returns its un-escaped
\* content; it fails with Error::Eof at end-of-stream and with
\* Error::UnexpectedEvent on a start, empty or end tag.
C8_ExpectTextClassifies ==
    last.op = "expect_text" =>
        LET rd == last.pre IN
        /\ last.res.kind = "Ok" =>
               /\ ~AtEndOfStream(rd) /\ NextLexeme(rd).kind = "Text"
               /\ last.res.text = Unescape(NextToken(rd).text).out
               /\ NextLexeme(rd).text = GtText => last.res.text = <<">">>
        /\ (~AtEndOfStream(rd) /\ NextLexeme(rd).kind = "Text") =>
               last.res.kind =
                   IF Unescape(NextToken(rd).text).ok THEN "Ok" ELSE "Reader"
        /\ AtEndOfStream(rd) => last.res = ErrEof
        /\ (~AtEndOfStream(rd) /\ Tokenizes(rd) /\ NextLexeme(rd).kind # "Text") =>
               last.res = UnexpectedEvent(NextToken(rd))

\* expect_text returned '>' for the text &gt;
C8_Witness ==
    /\ last.op = "expect_text" /\ ~AtEndOfStream(last.pre)
    /\ NextLexeme(last.pre).text = GtText
    /\ last.res = OkText(<<">">>)

\* C9: on a stream with no token left expect_element fails with Error::Eof
\* for every name and expect_eof succeeds, and the stream stays that way:
\* end-of-stream is not used up by being read.
C9_EndOfStreamPersists ==
    /\ (last.op \in {"expect_element", "expect_empty", "expect_eof", "expect_text"}
          /\ AtEndOfStream(last.pre)) =>
           /\ last.op = "expect_element" => last.res = ErrEof
           /\ last.op = "expect_eof" => last.res = OkRes
           /\ AtEndOfStream(frames[last.depth])
    /\ \A k \in 1..Top : AtEndOfStream(frames[k]) =>
           /\ \A n \in CallNames : ExpectElement(frames[k], n).res = ErrEof
           /\ ExpectEof(frames[k]).res = OkRes
           /\ AtEndOfStream(ExpectEof(frames[k]).rd)

\* expect_eof succeeded on a stream on which an expectation had just failed
\* with Error::Eof
C9_Witness ==
    /\ last.op = "expect_eof" /\ last.res = OkRes
    /\ Len(last.pre.buf) > 0
    /\ ExpectElement(last.pre, "r").res = ErrEof
    /\ last.pre.opened # <<>>

\* C10: when the stream ends before the end tag of the matched start tag,
\* expect_element fails with Error::Reader, never with Error::Eof, and never
\* returns an ElementReader.
C10_UnterminatedIsReaderError ==
    (last.op = "expect_element" /\ ~AtEndOfStream(last.pre)
       /\ NextLexeme(last.pre) = Tag("Start", last.name)
       /\ MatchEnd(last.pre.buf, NextIdx(last.pre)) = 0) =>
        /\ last.res = ErrReader
        /\ ~er.held

\* a start tag was matched, tokens followed it, and no end tag closed it
C10_Witness ==
    /\ last.op = "expect_element" /\ last.res = ErrReader
    /\ NextLexeme(last.pre) = Tag("Start", last.name)
    /\ MatchEnd(last.pre.buf, NextIdx(last.pre)) = 0
    /\ NextIdx(last.pre) < Len(last.pre.buf)
    /\ \A i \in 1..Len(last.pre.buf) : last.pre.buf[i].kind # "End"

\* C5: on a root element whose children are <ball>text</ball> elements and
\* empty tags of other names, the scan loop collects the texts of the ball
\* children in document order, the enclosing read_inner succeeds and the
\* final expect_eof on the root stream succeeds.
BallText(t) ==
    CASE t = GtText -> <<">">>
      [] t = <<" ", "b">> -> <<"b">>
      [] OTHER -> t

TextsOf(d) ==
    LET ts == SelectSeq(d, LAMBDA l : l.kind = "Text")
    IN  [k \in 1..Len(ts) |-> BallText(ts[k].text)]

C5_ScanCollectsBalls ==
    /\ pc # "failed"
    /\ pc = "expect_eof" =>
           /\ last.op = "read_inner" /\ last.res.kind = "Ok"
           /\ balls = TextsOf(frames[1].buf)
    /\ pc = "done" =>
           /\ last.op = "expect_eof" /\ last.res = OkRes
           /\ balls = TextsOf(frames[1].buf)
    /\ pc = "expect_ball" =>
           balls = TextsOf(SubSeq(frames[2].buf, 1, frames[2].pos))

\* the scan finished on <root><ball>a</ball><bat/><ball>&gt;</ball></root>
C5_Witness ==
    /\ pc = "done"
    /\ frames[1].buf = <<Tag("Start", "root")>> \o Ball(<<"a">>)
                          \o <<Tag("Empty", "bat")>> \o Ball(GtText)
                          \o <<Tag("End", "root")>>
    /\ balls = <<<<"a">>, <<">">>>>


\* C11: when the routine returns a failure, read_inner returns that failure
\* wrapped as Error::Inner without reading the scoped stream: no
\* end-of-stream check, never Error::UnexpectedEvent, even with tokens unread.
C11_RoutineFailureIsInner ==
    (last.op = "read_inner" /\ last.routine.kind # "Ok") =>
        /\ last.res = ErrInner(last.routine)
        /\ last.res.kind = "Inner"
        /\ last.res.cause[1] = last.routine.kind
        /\ last.rd = last.pre

\* the routine failed on its own account with a token of the scope unread
C11_Witness ==
    /\ last.op = "read_inner" /\ last.routine = UserError
    /\ ~AtEndOfStream(last.pre)
    /\ last.res.kind = "Inner" /\ last.res.cause = <<"User">>

\* C12 as stated: an expectation miss or read failure that the routine
\* propagates is not reported by read_inner as Error::Inner.
C12_PropagatedNotInner ==
    (last.op = "read_inner"
       /\ last.routine.kind \in {"UnexpectedEvent", "Eof", "Reader"}) =>
        last.res.kind # "Inner"

\* C12 as amended: every failure the routine returns, its own or a propagated
\* UnexpectedEvent, Eof or Reader error of the scoped stream, is reported as
\* Error::Inner; the two are told apart only by the wrapped error, which is
\* kept, while a failure of read_inner's own drained check is not wrapped.
C12_InnerKeepsCause ==
    last.op = "read_inner" =>
        /\ last.res.kind = "Inner" <=> last.routine.kind # "Ok"
        /\ last.routine.kind # "Ok" =>
               /\ last.res.cause = <<last.routine.kind>> \o last.routine.cause
               /\ last.res.event = last.routine.event
        /\ last.routine.kind = "User" <=> last.res.cause = <<"User">>

\* the routine propagated the UnexpectedEvent of its scoped stream
C12_Witness ==
    /\ last.op = "read_inner" /\ last.routine.kind = "UnexpectedEvent"
    /\ last.res.kind = "Inner" /\ last.res.cause = <<"UnexpectedEvent">>
    /\ last.res.event.kind \in {"Start", "Empty", "Text"}

\* C18: read_inner never returns Error::Eof: an Eof of the scoped stream that
\* the routine propagates comes back wrapped in Error::Inner, and the drained
\* check yields success, UnexpectedEvent or Reader only.
C18_ReadInnerNeverEof ==
    last.op = "read_inner" =>
        /\ last.res.kind \in {"Ok", "UnexpectedEvent", "Reader", "Inner"}
        /\ last.routine.kind = "Eof" =>
               last.res.kind = "Inner" /\ last.res.cause[1] = "Eof"
        /\ last.routine.kind = "Ok" =>
               last.res.kind \in {"Ok", "UnexpectedEvent", "Reader"}

\* the child scope was exhausted, its Eof propagated, and the caller of
\* read_inner, whose own stream has tokens left, got Error::Inner
C18_Witness ==
    /\ last.op = "read_inner" /\ last.routine = ErrEof
    /\ last.res.kind = "Inner" /\ last.res.cause = <<"Eof">>
    /\ ~AtEndOfStream(frames[last.depth])


\* C13: an ElementReader is consumed at most once.  The routine is invoked
\* only by read_inner on an unconsumed ElementReader, which is gone from
\* then on; an ElementReader comes only from a successful expect_element;
\* while one is held it can only be dropped or read; and when read_inner
\* returns, its scoped reader is gone and no ElementReader is left to read.
C13_ConsumedOnce ==
    [][/\ Len(frames') > Len(frames) =>
              /\ er.held /\ ~er'.held
              /\ frames' = Append(frames, InnerReader(er.span))
       /\ (er'.held /\ ~er.held) =>
              /\ last'.op = "expect_element" /\ last'.res.kind = "Ok"
              /\ er'.span = last'.span
              /\ Len(frames') = Len(frames)
       /\ er.held => ~er'.held
       /\ Len(frames') < Len(frames) =>
              /\ frames' = SubSeq(frames, 1, Len(frames) - 1)
              /\ last'.op = "read_inner" /\ last'.pre = frames[Len(frames)]
              /\ ~er'.held]_vars

\* read_inner has returned with a failure of its drained check inside an
\* enclosing routine, and nothing is left to read again
C13_Witness ==
    /\ last.op = "read_inner" /\ last.res.kind = "UnexpectedEvent"
    /\ last.depth = 2 /\ Top = 2
    /\ ~er.held


\* C14: un-escaping is applied once, by expect_text, at every nesting depth:
\* the span expect_element captures and read_inner tokenizes again is the
\* raw input, so &gt; yields > and &amp;gt; yields &gt; through any number
\* of scopes.
UnescapedOnce(raw) ==
    CASE raw = GtText -> <<">">>
      [] raw = AmpGtText -> GtText
      [] OTHER -> raw

\* s is a contiguous part of b, lexeme for lexeme
SliceOf(s, b) ==
    \E off \in 0..(Len(b) - Len(s)) : \A i \in 1..Len(s) : s[i] = b[off + i]

C14_UnescapedOnce ==
    /\ \A k \in 2..Top : SliceOf(frames[k].buf, frames[k - 1].buf)
    /\ er.held => SliceOf(er.span, frames[Top].buf)
    /\ (last.op = "expect_text" /\ last.res.kind = "Ok") =>
           /\ last.res.text = UnescapedOnce(NextLexeme(last.pre).text)
           /\ SliceOf(<<NextLexeme(last.pre)>>, frames[1].buf)

\* &amp;gt; read two scopes deep came out as &gt;
C14_Witness ==
    /\ last.op = "expect_text" /\ last.depth = 3
    /\ ~AtEndOfStream(last.pre) /\ NextLexeme(last.pre).text = AmpGtText
    /\ last.res = OkText(GtText)


\* the lexemes s close every tag they open and open every tag they close,
\* in order (open: the names opened and not yet closed)
RECURSIVE BalancedFrom(_, _)
BalancedFrom(s, open) ==
    IF s = <<>> THEN open = <<>>
    ELSE CASE Head(s).kind = "Start" ->
                BalancedFrom(Tail(s), Append(open, Head(s).name))
           [] Head(s).kind = "End" ->
                /\ open # <<>>
                /\ open[Len(open)] = Head(s).name
                /\ BalancedFrom(Tail(s), SubSeq(open, 1, Len(open) - 1))
           [] OTHER -> BalancedFrom(Tail(s), open)

Balanced(s) == BalancedFrom(s, <<>>)

\* C15 as stated: every span a successful expect_element returns is
\* balanced, for elements of any name.
C15_SpanBalanced ==
    (last.op = "expect_element" /\ last.res.kind = "Ok") => Balanced(last.span)

\* C15 as amended: every span a successful expect_element returns on a
\* reader that checks end-tag names (the default of quick-xml, and the
\* setting of every reader read_inner builds) is balanced, for elements of
\* any name.
C15_SpanBalancedWhenChecked ==
    /\ (last.op = "expect_element" /\ last.res.kind = "Ok" /\ last.pre.check) =>
           Balanced(last.span)
    /\ \A k \in 2..Top : frames[k].check

\* a span holding a whole element of another name
C15_Witness ==
    /\ last.op = "expect_element" /\ last.res.kind = "Ok" /\ last.pre.check
    /\ \E i \in 1..Len(last.span) :
           last.span[i].kind = "Start" /\ last.span[i].name # last.name
    /\ Balanced(last.span)


\* C16: a matcher that fails with Error::UnexpectedEvent has consumed the
\* offending token and nothing else, so the stream goes on with the token
\* after it; expect_element on a start tag of another name consumes that
\* start tag only.
C16_UnexpectedConsumesOne ==
    (last.op \in {"expect_element", "expect_empty", "expect_eof", "expect_text"}
       /\ last.res.kind = "UnexpectedEvent") =>
        LET rd == last.pre
            now == frames[last.depth]
        IN  /\ ~AtEndOfStream(rd)
            /\ now.buf = rd.buf
            /\ now.pos = NextIdx(rd)
            /\ last.res.event.kind = NextLexeme(rd).kind
            /\ last.res.event.name = NextLexeme(rd).name
            /\ ~AtEndOfStream(now) => NextIdx(now) > NextIdx(rd)
            /\ \A i \in (NextIdx(rd) + 1)..Len(rd.buf) :
                   ~Insignificant(rd, i) => NextIdx(now) # 0 /\ NextIdx(now) <= i

\* expect_element refused the start tag of a non-empty element of another
\* name, and the stream goes on with that element's first inner token
C16_Witness ==
    /\ last.op = "expect_element" /\ last.res.kind = "UnexpectedEvent"
    /\ last.res.event.kind = "Start" /\ last.res.event.name # last.name
    /\ MatchEnd(last.pre.buf, NextIdx(last.pre)) > NextIdx(last.pre) + 1
    /\ NextIdx(frames[last.depth]) = NextIdx(last.pre) + 1


\* C17: the skip-and-retry scan loop terminates on every finite stream:
\* each iteration ends the loop or moves the cursor forward, the loop ends,
\* and when it stops it is on Error::Eof at the end of the stream.
C17_ScanLoopTerminates ==
    /\ [][pc = "scan" =>
              \/ pc' \in {"stopped", "aborted"}
              \/ /\ pc' = "scan"
                 /\ frames'[1].pos > frames[1].pos
                 /\ frames'[1].pos >= NextIdx(frames[1])]_vars
    /\ [](pc = "stopped" => last.res = ErrEof /\ AtEndOfStream(frames[1]))
    /\ [](pc = "aborted" => last.res = ErrReader)
    /\ <>(pc \in {"stopped", "aborted"})

\* the loop skipped or matched its way through a whole stream and stopped
C17_Witness ==
    /\ pc = "stopped" /\ last.res = ErrEof
    /\ Len(frames[1].buf) >= 3
    /\ frames[1].pos = Len(frames[1].buf)


\* the number of <bar/> tags a scope starts with
LeadingBars(kids) ==
    CHOOSE n \in 0..Len(kids) :
        /\ \A i \in 1..n : kids[i] = Tag("Empty", "bar")
        /\ n < Len(kids) => kids[n + 1] # Tag("Empty", "bar")

\* C19: the drained check of read_inner looks only at the cursor: after the
\* routine `while expect_empty("bar") succeeds` read_inner succeeds exactly
\* when at most one token follows the leading bars of the scope (that token
\* was consumed by the failed expectation), so it succeeds on <bar/><baz/>
\* and fails, on the unread token, on <bar/><baz/><qux/>.
C19_DrainedLooksAtCursor ==
    (last.op = "read_inner" /\ pc \in {"done", "failed"}) =>
        LET kids == last.pre.buf
            n == LeadingBars(kids)
        IN  /\ Len(balls) = n
            /\ last.pre.pos = IF n + 1 <= Len(kids) THEN n + 1 ELSE n
            /\ last.res.kind = "Ok" <=> Len(kids) <= n + 1
            /\ last.res.kind = "Ok" <=> last.pre.pos = Len(kids)
            /\ last.res.kind # "Ok" => last.res = UnexpectedEvent(kids[n + 2])
            /\ kids = <<Tag("Empty", "bar"), Tag("Empty", "baz")>>
                   => last.res.kind = "Ok"
            /\ kids = <<Tag("Empty", "bar"), Tag("Empty", "baz"), Tag("Empty", "qux")>>
                   => last.res = UnexpectedEvent(Tag("Empty", "qux"))

\* read_inner succeeded on <bar/><baz/>: one bar counted, <baz/> dropped
C19_Witness ==
    /\ pc = "done" /\ last.op = "read_inner" /\ last.res.kind = "Ok"
    /\ last.pre.buf = <<Tag("Empty", "bar"), Tag("Empty", "baz")>>
    /\ Len(balls) = 1


\* the innermost reader was made by read_inner and nothing was called on it
FreshInner == Top >= 2 /\ last.depth < Top

\* a text token of whitespace only
WsOnly(ev) == ev.kind = "Text" /\ ev.text # <<>> /\ IsWs(ev.text)

====
